---- MODULE Spec2Model ----
(***************************************************************************)
(* A model of osm-revert's top-level pipeline (src/app/main.py): the       *)
(* function main wrapped by main_timer, together with the pure helper      *)
(* merge_and_sort_diffs.                                                   *)
(*                                                                         *)
(* Strings are sequences of characters; a character is a one-token string  *)
(* and "half" stands for U+00BD, a character for which str.isnumeric() is  *)
(* true while int() rejects it.                                            *)
(*                                                                         *)
(* The collaborators imported by main.py (OsmApi, Overpass, Inverter,      *)
(* config) are not part of the modelled file: their results are            *)
(* nondeterministic choices over the outcomes their contracts allow        *)
(* (a value, a falsy value, or an exception).                              *)
(***************************************************************************)
EXTENDS Integers, Sequences, FiniteSets

(* ------------------------------ bounds -------------------------------- *)
\* longest list of raw changeset ids passed to main
MaxIds == 2
\* most entries a fetched per-changeset diff holds in the pipeline model
MaxDiffEntries == 2
\* most parents update_parents appends
MaxParents == 1
\* largest value get_changeset_max_size returns
MaxCap == 2
\* merge_and_sort_diffs on its own: number of diffs and entries per list
MaxDiffs == 2
MaxLen == 2
\* build_element_ids_dict on its own: longest list of filter tokens
MaxTokens == 2

(* ------------------------------ strings ------------------------------- *)
Digits == {"0", "1", "9"}
Whitespace == {" "}
\* str.isnumeric(): every character has a Unicode numeric value
NumericChars == Digits \cup {"half"}
Chars == NumericChars \cup Whitespace \cup {"x"}

CodePoint(c) ==
  CASE c = " " -> 32
    [] c = "0" -> 48
    [] c = "1" -> 49
    [] c = "9" -> 57
    [] c = "x" -> 120
    [] c = "half" -> 189

DigitValue(c) ==
  CASE c = "0" -> 0
    [] c = "1" -> 1
    [] c = "9" -> 9

RECURSIVE LStrip(_)
LStrip(s) == IF s # <<>> /\ Head(s) \in Whitespace THEN LStrip(Tail(s)) ELSE s

RECURSIVE RStrip(_)
RStrip(s) ==
  IF s # <<>> /\ s[Len(s)] \in Whitespace THEN RStrip(SubSeq(s, 1, Len(s) - 1)) ELSE s

\* str.strip()
Strip(s) == RStrip(LStrip(s))

\* str.isnumeric(): non-empty and numeric characters only
IsNumeric(s) == s # <<>> /\ \A i \in 1..Len(s) : s[i] \in NumericChars

\* int(s) succeeds on a non-empty run of decimal digits (surrounding blanks allowed)
IntParses(s) == Strip(s) # <<>> /\ \A i \in 1..Len(Strip(s)) : Strip(s)[i] \in Digits

RECURSIVE DecimalValue(_)
DecimalValue(s) ==
  IF s = <<>> THEN 0
  ELSE 10 * DecimalValue(SubSeq(s, 1, Len(s) - 1)) + DigitValue(s[Len(s)])

\* int(s), where it parses
IntOf(s) == DecimalValue(Strip(s))

\* str.__lt__: lexicographic by code point
RECURSIVE StrLess(_, _)
StrLess(a, b) ==
  IF b = <<>> THEN FALSE
  ELSE IF a = <<>> THEN TRUE
  ELSE IF Head(a) # Head(b) THEN CodePoint(Head(a)) < CodePoint(Head(b))
  ELSE StrLess(Tail(a), Tail(b))

\* sorted(S) for a set of strings
RECURSIVE SortedStrings(_)
SortedStrings(S) ==
  IF S = {} THEN <<>>
  ELSE LET m == CHOOSE x \in S : \A y \in S \ {x} : StrLess(x, y)
       IN <<m>> \o SortedStrings(S \ {m})

Range(s) == {s[i] : i \in 1..Len(s)}

RECURSIVE SeqsUpTo(_, _)
SeqsUpTo(S, n) ==
  IF n = 0 THEN {<<>>}
  ELSE LET shorter == SeqsUpTo(S, n - 1)
       IN shorter \cup {Append(s, x) : s \in shorter, x \in S}

(* ----------------------------- diff entries --------------------------- *)
Types == {"node", "way", "relation"}
\* (timestamp, version) of the entries merge_and_sort_diffs is tried on: versions
\* grow with time, and two versions may share a timestamp
EntryShapes == {<<1, 1>>, <<1, 2>>, <<2, 2>>}

\* DiffEntry, reduced to the fields the pipeline reads
Entry(i, ts, cs, v) == [id |-> i, timestamp |-> ts, changeset_id |-> cs, version |-> v]

EmptyDict == [t \in {} |-> <<>>]

\* sum(len(el) for el in d.values())
RECURSIVE SumLen(_, _)
SumLen(d, keys) ==
  IF keys = {} THEN 0
  ELSE LET t == CHOOSE x \in keys : TRUE
       IN Len(d[t]) + SumLen(d, keys \ {t})

DictSize(d) == SumLen(d, DOMAIN d)

(* ------------------------ merge_and_sort_diffs ------------------------ *)
\* one step of a stable sort on descending timestamp: e goes behind every
\* entry that is at least as new
RECURSIVE InsertNewestFirst(_, _)
InsertNewestFirst(sorted, e) ==
  IF sorted = <<>> THEN <<e>>
  ELSE IF Head(sorted).timestamp >= e.timestamp
       THEN <<Head(sorted)>> \o InsertNewestFirst(Tail(sorted), e)
       ELSE <<e>> \o sorted

RECURSIVE InsertOldestFirst(_, _)
InsertOldestFirst(sorted, e) ==
  IF sorted = <<>> THEN <<e>>
  ELSE IF Head(sorted).timestamp <= e.timestamp
       THEN <<Head(sorted)>> \o InsertOldestFirst(Tail(sorted), e)
       ELSE <<e>> \o sorted

RECURSIVE SortOldestFirst(_)
SortOldestFirst(elements) ==
  IF elements = <<>> THEN <<>>
  ELSE InsertOldestFirst(SortOldestFirst(SubSeq(elements, 1, Len(elements) - 1)),
                         elements[Len(elements)])

\* sorted(elements, key=lambda t: t.timestamp, reverse=True): stable, so entries
\* with equal timestamps keep the order they had in elements
RECURSIVE SortNewestFirst(_)
SortNewestFirst(elements) ==
  IF elements = <<>> THEN <<>>
  ELSE InsertNewestFirst(SortNewestFirst(SubSeq(elements, 1, Len(elements) - 1)),
                         elements[Len(elements)])

\* the entries of type t in diffs[k..], in order
RECURSIVE ConcatFrom(_, _, _)
ConcatFrom(ds, k, t) ==
  IF k > Len(ds) THEN <<>>
  ELSE (IF t \in DOMAIN ds[k] THEN ds[k][t] ELSE <<>>) \o ConcatFrom(ds, k + 1, t)

\* result[element_type] += elements, for every later diff, with the later
\* diffs' lists of an element already seen in the result left out
RECURSIVE DropSeen(_, _)
DropSeen(seen, rest) ==
  IF rest = <<>> THEN seen
  ELSE IF \E i \in 1..Len(seen) : seen[i].id = Head(rest).id
       THEN DropSeen(seen, Tail(rest))
       ELSE DropSeen(Append(seen, Head(rest)), Tail(rest))

ConcatDedup(ds, t) == DropSeen(ds[1][t], ConcatFrom(ds, 2, t))

\* result = diffs[0]; for diff in diffs[1:]: result[element_type] += elements
ConcatDiffs(ds, t) == ds[1][t] \o ConcatFrom(ds, 2, t)

\* diffs[0] fails on an empty list; result[element_type] += ... fails on a
\* type diffs[0] does not hold
MergeRaises(ds) ==
  \/ ds = <<>>
  \/ \E k \in 2..Len(ds) : ~(DOMAIN ds[k] \subseteq DOMAIN ds[1])

\* merge_and_sort_diffs(diffs), where it returns
MergeAndSortDiffs(ds) == [t \in DOMAIN ds[1] |-> SortNewestFirst(ConcatDiffs(ds, t))]

\* the orders in which the keys of a dict holding the types of dom may have
\* been inserted: dict.items() (line 73) goes through them in that order
KeyOrders(dom) ==
  {o \in [1..Cardinality(dom) -> dom] : \A i, j \in DOMAIN o : i # j => o[i] # o[j]}

\* one key order for each diff of a list
RECURSIVE OrdersOf(_)
OrdersOf(ds) ==
  IF ds = <<>> THEN {<<>>}
  ELSE {<<o>> \o rest : o \in KeyOrders(DOMAIN Head(ds)), rest \in OrdersOf(Tail(ds))}

\* the position, among the keys of a later diff, of the first type that
\* diffs[0] does not hold: line 74 raises there; 0 if there is none
FirstMissing(first, keys) ==
  LET missing == {i \in 1..Len(keys) : keys[i] \notin DOMAIN first}
  IN IF missing = {} THEN 0 ELSE CHOOSE i \in missing : \A j \in missing : i <= j

\* line 74: the entries of type t that diff d, its keys in the order keys, has
\* added to diffs[0] when the loop over its items has ended or raised
Added(first, d, keys, t) ==
  LET m == FirstMissing(first, keys)
      visited == IF m = 0 THEN Len(keys) ELSE m - 1
  IN IF \E i \in 1..visited : keys[i] = t THEN d[t] ELSE <<>>

\* lines 72-74: what diffs[k..] have added to diffs[0], up to the diff that
\* raises; orders holds the key orders of diffs[1:], the diffs line 72 goes through
RECURSIVE AddedFrom(_, _, _, _)
AddedFrom(ds, orders, k, t) ==
  IF k > Len(ds) THEN <<>>
  ELSE Added(ds[1], ds[k], orders[k - 1], t)
         \o (IF FirstMissing(ds[1], orders[k - 1]) = 0
             THEN AddedFrom(ds, orders, k + 1, t)
             ELSE <<>>)

\* the list diffs after the call: result is diffs[0] itself, extended in place
\* and, where the call returns, holding the sorted lists
DiffsAfterMerge(ds, orders) ==
  IF ds = <<>> THEN ds
  ELSE IF MergeRaises(ds)
       THEN [ds EXCEPT ![1] = [t \in DOMAIN ds[1] |-> ds[1][t] \o AddedFrom(ds, orders, 2, t)]]
       ELSE [ds EXCEPT ![1] = MergeAndSortDiffs(ds)]

(* -------------------- filter_discussion_changesets -------------------- *)
Targets == {"all", "newest", "oldest", "None"}

\* 'newest' taken from the wrong end
FilterNewestFromFront(ids, target) ==
  IF target = "all" THEN ids
  ELSE IF target \in {"newest", "oldest"} /\ ids # <<>> THEN SubSeq(ids, 1, 1)
  ELSE <<>>

\* lines 83-92
FilterDiscussionChangesets(ids, target) ==
  IF target = "all" THEN ids
  ELSE IF target = "newest" /\ ids # <<>> THEN SubSeq(ids, Len(ids), Len(ids))
  ELSE IF target = "oldest" /\ ids # <<>> THEN SubSeq(ids, 1, 1)
  ELSE <<>>

(* ----------------------- build_element_ids_dict ----------------------- *)
\* str.lower(), on the letters the filter tokens are written with
Lower(s) == [i \in 1..Len(s) |-> IF s[i] = "N" THEN "n" ELSE s[i]]

\* str.startswith(p)
StartsWith(s, p) == Len(s) >= Len(p) /\ SubSeq(s, 1, Len(p)) = p

\* str.lstrip(cs)
RECURSIVE LStripChars(_, _)
LStripChars(s, cs) == IF s # <<>> /\ Head(s) \in cs THEN LStripChars(Tail(s), cs) ELSE s

\* lines 33-37: the prefixes in the order the two loops try them
Prefixes ==
  << [type |-> "node", prefix |-> <<"n", "o", "d", "e", "s">>],
     [type |-> "node", prefix |-> <<"n", "o", "d", "e">>],
     [type |-> "node", prefix |-> <<"n">>],
     [type |-> "way", prefix |-> <<"w", "a", "y", "s">>],
     [type |-> "way", prefix |-> <<"w", "a", "y">>],
     [type |-> "way", prefix |-> <<"w">>],
     [type |-> "relation", prefix |-> <<"r", "e", "l", "a", "t", "i", "o", "n", "s">>],
     [type |-> "relation", prefix |-> <<"r", "e", "l", "a", "t", "i", "o", "n">>],
     [type |-> "relation", prefix |-> <<"r", "e", "l">>],
     [type |-> "relation", prefix |-> <<"r">>] >>

Separators == {":", ";", ".", ","}

\* lines 20-31: the empty result
EmptyElementIds ==
  [section \in {"include", "exclude"} |-> [t \in Types |-> {}]]

\* lines 49-53: the first prefix the token starts with, 0 when there is none
RECURSIVE FirstPrefix(_, _)
FirstPrefix(s, k) ==
  IF k > Len(Prefixes) THEN 0
  ELSE IF StartsWith(s, Prefixes[k].prefix) THEN k
  ELSE FirstPrefix(s, k + 1)

\* lines 39-63: one round of the loop over element_ids
ParseElementId(token) ==
  LET trimmed == Lower(Strip(token))
      excluded == StartsWith(trimmed, <<"-">>)
      element_id == IF excluded THEN LStrip(LStripChars(trimmed, {"-"}))
                    ELSE LStrip(LStripChars(trimmed, {"+"}))
      k == FirstPrefix(element_id, 1)
      rest == SubSeq(element_id, Len(Prefixes[k].prefix) + 1, Len(element_id))
      id == LStrip(LStripChars(rest, Separators))
  IN IF k = 0 \/ ~IsNumeric(id)
     THEN [raised |-> TRUE, section |-> "include", type |-> "node", id |-> <<>>]
     ELSE [raised |-> FALSE,
           section |-> IF excluded THEN "exclude" ELSE "include",
           type |-> Prefixes[k].type,
           id |-> id]

\* lines 39-66: the loop from token i on
RECURSIVE BuildFrom(_, _, _)
BuildFrom(element_ids, i, result) ==
  IF i > Len(element_ids) THEN [done |-> TRUE, raised |-> FALSE, value |-> result]
  ELSE LET e == ParseElementId(element_ids[i])
       IN IF e.raised THEN [done |-> TRUE, raised |-> TRUE, value |-> EmptyElementIds]
          ELSE BuildFrom(element_ids, i + 1,
                         [result EXCEPT ![e.section][e.type] = @ \cup {e.id}])

BuildElementIdsDict(element_ids) == BuildFrom(element_ids, 1, EmptyElementIds)

NoElementIds == [done |-> FALSE, raised |-> FALSE, value |-> EmptyElementIds]

(* ------------------------------ config -------------------------------- *)
\* CHANGESETS_LIMIT_CONFIG[''] and ['moderator']: edits needed -> changesets allowed
LimitConfigUser == [k \in {0, 1, 2} |-> k]
LimitConfigModerator == [k \in {0} |-> 3]
CHANGESETS_LIMIT_CONFIG(moderator) == IF moderator THEN LimitConfigModerator ELSE LimitConfigUser
CHANGESETS_LIMIT_MODERATOR_REVERT == 3

SetMax(S) == CHOOSE m \in S : \A x \in S : x <= m

\* max(v for k, v in changesets_limit_config.items() if k <= user_edits)
ChangesetsLimit(u) ==
  LET cfg == CHANGESETS_LIMIT_CONFIG(u.moderator)
  IN SetMax({cfg[k] : k \in {j \in DOMAIN cfg : j <= u.edits}})

(* ------------------------- collaborator results ----------------------- *)
\* get_authorized_user(): the edit count and is_osm_moderator(roles)
Users ==
  {[edits |-> e, moderator |-> FALSE] : e \in 0..CHANGESETS_LIMIT_MODERATOR_REVERT}
    \cup {[edits |-> 0, moderator |-> TRUE]}

NoUser == [edits |-> 0, moderator |-> FALSE]

\* one partition of a changeset: the ids it lists per element type
Partition(n) == [t \in Types |-> IF t = "node" THEN [i \in 1..n |-> i] ELSE <<>>]

\* get_changeset(id): the changeset's partitions
Changesets == {[partition |-> <<>>],
               [partition |-> <<Partition(1)>>],
               [partition |-> <<Partition(1), Partition(1)>>]}

NoChangeset == [partition |-> <<>>]

\* sum(len(v) for p in changeset['partition'].values() for v in p.values())
RECURSIVE ChangesetSize(_)
ChangesetSize(parts) ==
  IF parts = <<>> THEN 0 ELSE DictSize(Head(parts)) + ChangesetSize(Tail(parts))

\* get_user(uid): absent, a moderator, or an ordinary user
UserLookups == {"raise", "none", "moderator", "user"}

\* get_changeset_elements_history(...): a diff holding n node entries of one
\* changeset; changeset ids grow with time, so its edits carry its id as their time
HistoryDiff(cs, n) ==
  [t \in Types |-> IF t = "node" THEN [i \in 1..n |-> Entry(i, cs, cs, 1)] ELSE <<>>]

\* its outcomes: an exception, None, an empty mapping, or a diff
HistoryResults(cs) ==
  {[kind |-> "raise", diff |-> EmptyDict],
   [kind |-> "None", diff |-> EmptyDict],
   [kind |-> "dict", diff |-> EmptyDict]}
    \cup {[kind |-> "dict", diff |-> HistoryDiff(cs, n)] : n \in 0..MaxDiffEntries}

\* bool(diff)
Truthy(r) == r.kind = "dict" /\ DOMAIN r.diff # {}

\* the distinct element ids of a list of entries, in order of first occurrence
RECURSIVE DistinctIds(_)
DistinctIds(entries) ==
  IF entries = <<>> THEN <<>>
  ELSE LET rest == DistinctIds(SubSeq(entries, 1, Len(entries) - 1))
           e == entries[Len(entries)]
       IN IF e.id \in Range(rest) THEN rest ELSE Append(rest, e.id)

\* the id upload_diff returns for the new changeset
NewChangesetId == 500

(* ------------------------------- state -------------------------------- *)
VARIABLES
  discussion,         \* main's discussion argument: None or a string
  discussion_target,  \* main's discussion_target argument
  osc_file,           \* a path to write the change document to is given
  print_osc,          \* the change document is to be printed
  pc,                 \* position in main
  changeset_ids,      \* main's changeset_ids argument; from line 134 on the sorted
                      \* tuple of its distinct stripped ids
  user,               \* user_edits and user_is_moderator
  idx,                \* position of the fetch loop in changeset_ids
  changeset,          \* the changeset being processed
  diffs,              \* per-changeset diffs appended so far
  merged_diffs,       \* result of merge_and_sort_diffs
  invert,             \* element type -> inverted elements
  warnings,           \* inverter.warnings: elements skipped for review
  invert_size,        \* sum of the lengths of invert's lists
  changeset_max_size, \* result of get_changeset_max_size
  uploaded,           \* <<id>> once upload_diff returned a changeset id
  d_changeset_ids,    \* changesets selected for a discussion comment
  d_idx,              \* position of the discussion loop
  calls,              \* collaborator calls made so far
  printed,            \* result-relevant output so far
  exit_code,          \* <<code>> once main_timer's wrapper has exited
  arg_diffs,          \* merge_and_sort_diffs on its own: its argument
  passed_diffs,       \* merge_and_sort_diffs on its own: the argument as it was passed
  arg_keys,           \* merge_and_sort_diffs on its own: the key order of each diff of
                      \* arg_diffs[1:], the diffs whose items line 73 goes through
  ret_merged,         \* merge_and_sort_diffs on its own: its outcome
  arg_element_ids,    \* build_element_ids_dict on its own: its argument
  ret_element_ids     \* build_element_ids_dict on its own: its outcome

inputs == <<discussion, discussion_target, osc_file, print_osc>>

\* line 240: osc_file or print_osc
offline == osc_file \/ print_osc
locals == <<changeset_ids, user, idx, changeset, diffs, merged_diffs, invert, warnings,
            invert_size, changeset_max_size, uploaded, d_changeset_ids, d_idx>>
effects == <<calls, printed>>
mergevars == <<arg_diffs, passed_diffs, arg_keys, ret_merged>>
filtervars == <<arg_element_ids, ret_element_ids>>
vars == <<inputs, pc, locals, effects, exit_code, mergevars, filtervars>>

None == [isNone |-> TRUE, text |-> <<>>]
Str(s) == [isNone |-> FALSE, text |-> s]

\* raw changeset ids a caller may pass
RawIds == {<<"9">>, <<" ", "1", "0">>, <<>>, <<"x">>, <<"half">>}

\* discussion texts: absent, too short once stripped, long enough
Discussions == {None, Str(<<" ", "x", "x", "x", " ">>), Str(<<"x", "x", "x", "x">>)}

\* a collaborator call: its argument (a changeset id, else 0), its outcome ("ok",
\* "raise", a falsy result, or what get_user found) and a size it carried
\* (declared size, diff size, parents, cap, upload size)
Call(op, arg, res, val) == [op |-> op, arg |-> arg, res |-> res, val |-> val]

Outcome(ok) == IF ok THEN "ok" ELSE "raise"

NoMerge == [done |-> FALSE, raised |-> FALSE, value |-> EmptyDict]

MainInit ==
  /\ pc = "start"
  /\ user = NoUser
  /\ idx = 0
  /\ changeset = NoChangeset
  /\ diffs = <<>>
  /\ merged_diffs = EmptyDict
  /\ invert = EmptyDict
  /\ warnings = <<>>
  /\ invert_size = 0
  /\ changeset_max_size = 0
  /\ uploaded = <<>>
  /\ d_changeset_ids = <<>>
  /\ d_idx = 0
  /\ calls = <<>>
  /\ printed = <<>>
  /\ exit_code = <<>>

Init ==
  /\ changeset_ids \in SeqsUpTo(RawIds, MaxIds)
  /\ discussion \in Discussions
  /\ discussion_target \in Targets
  /\ osc_file \in BOOLEAN
  /\ print_osc \in BOOLEAN
  /\ MainInit
  /\ arg_diffs = <<>>
  /\ passed_diffs = <<>>
  /\ arg_keys = <<>>
  /\ ret_merged = NoMerge
  /\ arg_element_ids = <<>>
  /\ ret_element_ids = NoElementIds

(* ----------------------------- main_timer ----------------------------- *)
\* return exit_code, then exit(exit_code)
Return(code) == pc' = "done" /\ exit_code' = <<code>>

\* the wrapper taking an exception for a refusal
FatalAsRefusal == pc' = "done" /\ exit_code' = <<-1>>

\* except Exception: exit_code = -2
Fatal == pc' = "done" /\ exit_code' = <<-2>>

(* -------------------------------- main -------------------------------- *)
\* lines 134-140: normalise and validate the changeset ids
ParsedIds(raw) == SortedStrings({Strip(s) : s \in {x \in Range(raw) : x # <<>>}})

\* lines 139-140: some id is given and every id is numeric
IdsValid(ids) == ids # <<>> /\ \A i \in 1..Len(ids) : IsNumeric(ids[i])

ParseIds ==
  /\ pc = "start"
  /\ changeset_ids' = ParsedIds(changeset_ids)
  /\ IF IdsValid(changeset_ids')
     THEN pc' = "login" /\ UNCHANGED exit_code
     ELSE Fatal
  /\ UNCHANGED <<inputs, user, idx, changeset, diffs, merged_diffs, invert, warnings,
                 invert_size, changeset_max_size, uploaded, d_changeset_ids, d_idx,
                 effects, mergevars, filtervars>>

\* lines 155-162: create the client and fetch the authorized user
Login ==
  /\ pc = "login"
  /\ \E r \in {[ok |-> FALSE, user |-> NoUser]} \cup {[ok |-> TRUE, user |-> u] : u \in Users} :
       /\ calls' = calls \o <<Call("OsmApi", 0, "ok", 0),
                            Call("get_authorized_user", 0, Outcome(r.ok), 0)>>
       /\ user' = r.user
       /\ IF r.ok THEN pc' = "limits" /\ UNCHANGED exit_code ELSE Fatal
  /\ UNCHANGED <<inputs, changeset_ids, idx, changeset, diffs, merged_diffs, invert, warnings,
                 invert_size, changeset_max_size, uploaded, d_changeset_ids, d_idx,
                 printed, mergevars, filtervars>>

\* the checks of lines 167 and 172, the second off by one
LimitExceededOffByOne(limit, n) == limit = 0 \/ limit + 1 < n

\* lines 167 and 172: the account may revert nothing, or fewer changesets than asked
LimitExceeded(limit, n) == limit = 0 \/ limit < n

\* lines 164-181
CheckLimits ==
  /\ pc = "limits"
  /\ IF LimitExceeded(ChangesetsLimit(user), Len(changeset_ids))
     THEN Return(-1) /\ UNCHANGED idx
     ELSE pc' = "loop" /\ idx' = 1 /\ UNCHANGED exit_code
  /\ UNCHANGED <<inputs, changeset_ids, user, changeset, diffs, merged_diffs, invert, warnings,
                 invert_size, changeset_max_size, uploaded, d_changeset_ids, d_idx,
                 effects, mergevars, filtervars>>

\* lines 183-188: int(changeset_id), then get_changeset
GetChangeset ==
  /\ pc = "loop"
  /\ idx <= Len(changeset_ids)
  /\ IF ~IntParses(changeset_ids[idx])
     THEN Fatal /\ UNCHANGED <<changeset, calls>>
     ELSE \E r \in {[ok |-> FALSE, changeset |-> NoChangeset]}
                     \cup {[ok |-> TRUE, changeset |-> c] : c \in Changesets} :
            /\ calls' = Append(calls, Call("get_changeset", IntOf(changeset_ids[idx]),
                                           Outcome(r.ok),
                                           ChangesetSize(r.changeset.partition)))
            /\ changeset' = IF r.ok THEN r.changeset ELSE changeset
            /\ IF r.ok THEN pc' = "moderator" /\ UNCHANGED exit_code ELSE Fatal
  /\ UNCHANGED <<inputs, changeset_ids, user, idx, diffs, merged_diffs, invert, warnings,
                 invert_size, changeset_max_size, uploaded, d_changeset_ids, d_idx,
                 printed, mergevars, filtervars>>

LookupOutcome(r) == IF r \in {"none", "user"} THEN "ok" ELSE r

\* line 190: is the author of the changeset looked up
ChecksAuthor(u) == u.edits < CHANGESETS_LIMIT_MODERATOR_REVERT /\ ~u.moderator

\* lines 190-194: changesets of moderators are protected
CheckModerator ==
  /\ pc = "moderator"
  /\ IF ChecksAuthor(user)
     THEN \E r \in UserLookups :
            /\ calls' = Append(calls, Call("get_user", IntOf(changeset_ids[idx]), LookupOutcome(r), 0))
            /\ IF r = "raise" THEN Fatal
               ELSE IF r = "moderator" THEN Return(-1)
               ELSE pc' = "history" /\ UNCHANGED exit_code
     ELSE pc' = "history" /\ UNCHANGED <<exit_code, calls>>
  /\ UNCHANGED <<inputs, changeset_ids, user, idx, changeset, diffs, merged_diffs, invert,
                 warnings, invert_size, changeset_max_size, uploaded, d_changeset_ids, d_idx,
                 printed, mergevars, filtervars>>

\* the assertion of line 216, off by one
DiffFitsLoose(diff_size, changeset_size) == diff_size <= changeset_size + 1

\* line 216: assert diff_size <= changeset_size
DiffFits(diff_size, changeset_size) == diff_size <= changeset_size

\* line 210 without its check: a falsy diff is taken for a diff
FetchFailedNever(r) == FALSE

HistoryOutcome(r) == IF r.kind = "raise" THEN "raise" ELSE IF Truthy(r) THEN "ok" ELSE "falsy"

\* line 210: if not diff: return -1
FetchFailed(r) == ~Truthy(r)

\* lines 196-222: fetch the history of the changeset's elements
FetchHistory ==
  /\ pc = "history"
  /\ LET changeset_size == ChangesetSize(changeset.partition)
         cs == IntOf(changeset_ids[idx])
     IN IF changeset_size = 0
        THEN pc' = "loop" /\ idx' = idx + 1 /\ UNCHANGED <<exit_code, calls, diffs>>
        ELSE \E r \in HistoryResults(cs) :
               /\ calls' = Append(calls, Call("get_changeset_elements_history", cs,
                                              HistoryOutcome(r), DictSize(r.diff)))
               /\ IF r.kind = "raise" THEN Fatal /\ UNCHANGED <<idx, diffs>>
                  ELSE IF FetchFailed(r) THEN Return(-1) /\ UNCHANGED <<idx, diffs>>
                  ELSE /\ diffs' = Append(diffs, r.diff)
                       /\ IF DiffFits(DictSize(r.diff), changeset_size)
                          THEN pc' = "loop" /\ idx' = idx + 1 /\ UNCHANGED exit_code
                          ELSE Fatal /\ UNCHANGED idx
  /\ UNCHANGED <<inputs, changeset_ids, user, changeset, merged_diffs, invert, warnings,
                 invert_size, changeset_max_size, uploaded, d_changeset_ids, d_idx,
                 printed, mergevars, filtervars>>

\* the loop over the requested ids left after its first round
AllFetchedEarly == idx > 1

\* line 183: the for loop over changeset_ids has run to its end
AllFetched == idx > Len(changeset_ids)

\* lines 224-225: merge the per-changeset diffs
Merge ==
  /\ pc = "loop"
  /\ AllFetched
  /\ calls' = Append(calls, Call("merge_and_sort_diffs", Len(diffs),
                                 Outcome(~MergeRaises(diffs)), 0))
  /\ \E orders \in OrdersOf(IF diffs = <<>> THEN <<>> ELSE Tail(diffs)) :
       diffs' = DiffsAfterMerge(diffs, orders)
  /\ IF MergeRaises(diffs)
     THEN Fatal /\ UNCHANGED merged_diffs
     ELSE merged_diffs' = MergeAndSortDiffs(diffs) /\ pc' = "invert" /\ UNCHANGED exit_code
  /\ UNCHANGED <<inputs, changeset_ids, user, idx, changeset, invert, warnings,
                 invert_size, changeset_max_size, uploaded, d_changeset_ids, d_idx,
                 printed, mergevars, filtervars>>

\* Inverter.invert_diff: the first k of the elements of a type are inverted, the
\* others are skipped and flagged for review
Inverted(merged, k) ==
  [t \in Types |-> IF t = "node" THEN SubSeq(DistinctIds(merged[t]), 1, k) ELSE <<>>]

Skipped(merged, k) ==
  SubSeq(DistinctIds(merged["node"]), k + 1, Len(DistinctIds(merged["node"])))

\* lines 227-228: invert the merged diff
Invert ==
  /\ pc = "invert"
  /\ \E ok \in BOOLEAN : \E k \in 0..Len(DistinctIds(merged_diffs["node"])) :
       /\ ok \/ k = 0
       /\ calls' = Append(calls, Call("invert_diff", 0, Outcome(ok), k))
       /\ IF ok
          THEN /\ invert' = Inverted(merged_diffs, k)
               /\ warnings' = Skipped(merged_diffs, k)
               /\ pc' = "parents"
               /\ UNCHANGED exit_code
          ELSE Fatal /\ UNCHANGED <<invert, warnings>>
  /\ UNCHANGED <<inputs, changeset_ids, user, idx, changeset, diffs, merged_diffs,
                 invert_size, changeset_max_size, uploaded, d_changeset_ids, d_idx,
                 printed, mergevars, filtervars>>

\* Overpass.update_parents: how many parents it may find; only an element that is
\* being changed has parents to fix
ParentCounts(inv) == IF DictSize(inv) = 0 THEN {0} ELSE 0..MaxParents

\* Overpass.update_parents: appends n parents to the inverted ways
WithParents(inv, n) ==
  [t \in DOMAIN inv |-> IF t = "way" THEN inv[t] \o [i \in 1..n |-> 100 + i] ELSE inv[t]]

\* line 234: invert_size = sum(len(elements) for elements in invert.values())
InvertSize(inv) == DictSize(inv)

NothingToRevertNever(size) == FALSE

\* lines 234-236: invert_size == 0
NothingToRevert(size) == size = 0

\* lines 229-238: reconcile parents, count, stop when nothing is left to revert
UpdateParents ==
  /\ pc = "parents"
  /\ \E ok \in BOOLEAN : \E parents \in ParentCounts(invert) :
       /\ ok \/ parents = 0
       /\ calls' = Append(calls, Call("update_parents", 0, Outcome(ok), parents))
       /\ IF ok
          THEN /\ invert' = WithParents(invert, parents)
               /\ invert_size' = InvertSize(invert')
               /\ IF NothingToRevert(invert_size')
                  THEN Return(0) /\ printed' = Append(printed, "nothing")
                  ELSE pc' = "output" /\ UNCHANGED <<exit_code, printed>>
          ELSE Fatal /\ UNCHANGED <<invert, invert_size, printed>>
  /\ UNCHANGED <<inputs, changeset_ids, user, idx, changeset, diffs, merged_diffs, warnings,
                 changeset_max_size, uploaded, d_changeset_ids, d_idx, mergevars, filtervars>>

\* the test of line 240 never taken
SavesOscNever == FALSE

\* lines 243-248: the steps of the offline branch that may raise, in order:
\* build_osm_change, xmltodict.unparse and, with osc_file, open and write
OscStepList(file) ==
  IF file THEN <<"build_osm_change", "unparse", "write_osc">>
  ELSE <<"build_osm_change", "unparse">>

\* the steps made when the step `failing` raises ("none": all of them)
StepsUpTo(list, failing) ==
  IF failing = "none" THEN list
  ELSE SubSeq(list, 1, CHOOSE i \in 1..Len(list) : list[i] = failing)

\* line 240: if osc_file or print_osc
SavesOsc == offline

\* lines 240-257: offline mode writes the change document
SaveOsc ==
  /\ pc = "output"
  /\ SavesOsc
  /\ \E failing \in Range(OscStepList(osc_file)) \cup {"none"} :
       LET made == StepsUpTo(OscStepList(osc_file), failing)
       IN /\ calls' = calls \o [i \in 1..Len(made) |->
                                   Call(made[i], 0, Outcome(made[i] # failing), invert_size)]
          /\ IF failing = "none"
             THEN /\ printed' = printed \o (IF print_osc THEN <<"osc">> ELSE <<>>)
                                        \o <<"warnings", "success">>
                  /\ Return(0)
             ELSE Fatal /\ UNCHANGED printed
  /\ UNCHANGED <<inputs, locals, mergevars, filtervars>>

\* the check of line 262, off by one
TooBigStrict(size, cap) == size > cap + 1

\* line 262: if invert_size > changeset_max_size
TooBig(size, cap) == size > cap

\* lines 260-268: the service's cap on the size of an upload
GetMaxSize ==
  /\ pc = "output"
  /\ ~SavesOsc
  /\ \E ok \in BOOLEAN : \E cap \in 0..MaxCap :
       /\ ok = (cap > 0)
       /\ calls' = Append(calls, Call("get_changeset_max_size", 0, Outcome(ok), cap))
       /\ IF ok
          THEN /\ changeset_max_size' = cap
               /\ IF TooBig(invert_size, cap)
                  THEN Return(-1)
                  ELSE pc' = "upload" /\ UNCHANGED exit_code
          ELSE Fatal /\ UNCHANGED changeset_max_size
  /\ UNCHANGED <<inputs, changeset_ids, user, idx, changeset, diffs, merged_diffs, invert,
                 warnings, invert_size, uploaded, d_changeset_ids, d_idx, printed, mergevars, filtervars>>

\* line 291: len(discussion) >= 4
MinDiscussionLength == 4

UploadResults == {"raise", "None", "id"}

UploadOutcome(r) == IF r = "id" THEN "ok" ELSE IF r = "None" THEN "falsy" ELSE "raise"

\* lines 270-295 and 307: upload, then prepare the discussion comments
Upload ==
  /\ pc = "upload"
  /\ \E r \in UploadResults :
       /\ calls' = Append(calls, Call("upload_diff", 0, UploadOutcome(r), DictSize(invert)))
       /\ IF r = "raise" THEN Fatal /\ UNCHANGED <<uploaded, d_changeset_ids, d_idx>>
          ELSE IF r = "None" THEN Return(-1) /\ UNCHANGED <<uploaded, d_changeset_ids, d_idx>>
          ELSE /\ uploaded' = <<NewChangesetId>>
               /\ IF discussion.isNone
                  THEN Fatal /\ UNCHANGED <<d_changeset_ids, d_idx>>
                  ELSE IF Len(Strip(discussion.text)) >= MinDiscussionLength
                  THEN /\ d_changeset_ids' =
                            FilterDiscussionChangesets(changeset_ids, discussion_target)
                       /\ d_idx' = 1
                       /\ pc' = IF d_changeset_ids' = <<>> THEN "finish" ELSE "discuss"
                       /\ UNCHANGED exit_code
                  ELSE pc' = "finish" /\ UNCHANGED <<exit_code, d_changeset_ids, d_idx>>
  /\ UNCHANGED <<inputs, changeset_ids, user, idx, changeset, diffs, merged_diffs, invert,
                 warnings, invert_size, changeset_max_size, printed, mergevars, filtervars>>

\* lines 297-300: one discussion comment
PostComment ==
  /\ pc = "discuss"
  /\ \E ok \in BOOLEAN :
       /\ calls' = Append(calls, Call("post_discussion_comment",
                                      IntOf(d_changeset_ids[d_idx]), Outcome(ok), 0))
       /\ IF ok
          THEN /\ d_idx' = d_idx + 1
               /\ pc' = IF d_idx = Len(d_changeset_ids) THEN "finish" ELSE "discuss"
               /\ UNCHANGED exit_code
          ELSE Fatal /\ UNCHANGED d_idx
  /\ UNCHANGED <<inputs, changeset_ids, user, idx, changeset, diffs, merged_diffs, invert,
                 warnings, invert_size, changeset_max_size, uploaded, d_changeset_ids,
                 printed, mergevars, filtervars>>

\* lines 302-305: report the warnings and succeed
Finish ==
  /\ pc = "finish"
  /\ printed' = printed \o <<"warnings", "success">>
  /\ Return(0)
  /\ UNCHANGED <<inputs, locals, calls, mergevars, filtervars>>

Next ==
  \/ ParseIds
  \/ Login
  \/ CheckLimits
  \/ GetChangeset
  \/ CheckModerator
  \/ FetchHistory
  \/ Merge
  \/ Invert
  \/ UpdateParents
  \/ SaveOsc
  \/ GetMaxSize
  \/ Upload
  \/ PostComment
  \/ Finish

Spec == Init /\ [][Next]_vars

(* ------------------- merge_and_sort_diffs on its own ------------------ *)
\* the entries one changeset may hold for an element
EntriesOf(cs) == {Entry(1, sh[1], cs, sh[2]) : sh \in EntryShapes}

\* lists of pairwise distinct entries: an element version occurs once in a diff
EntryLists(cs) ==
  {l \in SeqsUpTo(EntriesOf(cs), MaxLen) : \A i, j \in 1..Len(l) : i # j => l[i] # l[j]}

\* the diffs of one changeset: every type, or nodes and ways only
DiffsOf(cs) ==
  {[t \in dom |-> IF t = "node" THEN l ELSE <<>>] :
     dom \in {Types, {"node", "way"}}, l \in EntryLists(cs)}

\* lists of n diffs, the k-th of changeset ids[k]
RECURSIVE DiffLists(_, _)
DiffLists(ids, n) ==
  IF n = 0 THEN {<<>>}
  ELSE {Append(ds, d) : ds \in DiffLists(ids, n - 1), d \in DiffsOf(ids[n])}

\* up to max diffs, in the callers' order of changesets: ascending or descending ids
MergeInputs(max) ==
  UNION {DiffLists([k \in 1..n |-> k], n) \cup DiffLists([k \in 1..n |-> n + 1 - k], n) :
           n \in 0..max}

InitMerge ==
  /\ changeset_ids = <<>>
  /\ discussion = None
  /\ discussion_target = "None"
  /\ osc_file = FALSE
  /\ print_osc = FALSE
  /\ MainInit
  /\ arg_diffs \in MergeInputs(MaxDiffs)
  /\ passed_diffs = arg_diffs
  /\ arg_keys \in OrdersOf(IF arg_diffs = <<>> THEN <<>> ELSE Tail(arg_diffs))
  /\ ret_merged = NoMerge
  /\ arg_element_ids = <<>>
  /\ ret_element_ids = NoElementIds

\* lines 69-80: one call of merge_and_sort_diffs(arg_diffs)
CallMerge ==
  /\ ~ret_merged.done
  /\ arg_diffs' = DiffsAfterMerge(arg_diffs, arg_keys)
  /\ ret_merged' = IF MergeRaises(arg_diffs)
                   THEN [done |-> TRUE, raised |-> TRUE, value |-> EmptyDict]
                   ELSE [done |-> TRUE, raised |-> FALSE, value |-> MergeAndSortDiffs(arg_diffs)]
  /\ UNCHANGED <<inputs, pc, locals, effects, exit_code, passed_diffs, arg_keys, filtervars>>

NextMerge == CallMerge

SpecMerge == InitMerge /\ [][NextMerge]_vars

(* ------------- build_element_ids_dict checked on its own -------------- *)
Signs == {<<>>, <<"-">>, <<"+">>}
Remainders == {<<"1">>, <<"half">>, <<>>}
Heads == {Prefixes[k].prefix : k \in 1..Len(Prefixes)} \cup {<<"x">>}

\* filter tokens: a sign, a prefix and a remainder, and some written more freely
FilterTokens ==
  {s \o h \o r : s \in Signs, h \in Heads, r \in Remainders}
    \cup { <<" ", "-", " ", "N", ":", " ", "9", " ">>,
           <<"-", "-", "n", "1">>,
           <<"+", "-", "n", "1">>,
           <<"w", " ", ":", "1">>,
           <<"r", "1", " ", "9">>,
           <<"w", ";", ".", ",", "1", "9">> }

FilterInputs(max) == SeqsUpTo(FilterTokens, max)

InitFilter ==
  /\ changeset_ids = <<>>
  /\ discussion = None
  /\ discussion_target = "None"
  /\ osc_file = FALSE
  /\ print_osc = FALSE
  /\ MainInit
  /\ arg_diffs = <<>>
  /\ passed_diffs = <<>>
  /\ arg_keys = <<>>
  /\ ret_merged = NoMerge
  /\ arg_element_ids \in FilterInputs(MaxTokens)
  /\ ret_element_ids = NoElementIds

\* lines 19-66: one call of build_element_ids_dict(arg_element_ids)
CallBuildElementIds ==
  /\ ~ret_element_ids.done
  /\ ret_element_ids' = BuildElementIdsDict(arg_element_ids)
  /\ UNCHANGED <<inputs, pc, locals, effects, exit_code, mergevars, arg_element_ids>>

NextFilter == CallBuildElementIds

SpecFilter == InitFilter /\ [][NextFilter]_vars

(* ============================== properties ============================ *)
Done == pc = "done"
Exited(code) == Done /\ exit_code = <<code>>
Failed == Exited(-1) \/ Exited(-2)

CallsOf(op) == {i \in 1..Len(calls) : calls[i].op = op}
Called(op) == \E i \in 1..Len(calls) : calls[i].op = op
Wrote == uploaded # <<>> \/ Called("post_discussion_comment")

RetrievalOps == {"get_changeset", "get_changeset_elements_history"}
RetrievalFailed == \E i \in 1..Len(calls) : calls[i].op \in RetrievalOps /\ calls[i].res # "ok"

\* the requested changesets, as numbers
RequestedIds == {IntOf(changeset_ids[i]) : i \in 1..Len(changeset_ids)}

Returned(op, cs) ==
  \E i \in 1..Len(calls) : calls[i].op = op /\ calls[i].arg = cs /\ calls[i].res = "ok"

\* the declared size get_changeset reported for a changeset
DeclaredEmpty(cs) ==
  \E i \in 1..Len(calls) :
    /\ calls[i].op = "get_changeset"
    /\ calls[i].arg = cs /\ calls[i].res = "ok" /\ calls[i].val = 0

\* C1: a run that ends with a failure result (-1 or -2) has written nothing: no
\* upload_diff returned a changeset id and no discussion comment was posted.
C1_NoWriteOnFailure == Failed => ~Wrote

\* C2, as stated: upload_diff is called at most once, only after get_changeset and
\* get_changeset_elements_history both returned for every requested changeset, and
\* a failed retrieval ends the run with a failure and without upload or comment.
C2_UploadAfterEveryHistory ==
  /\ Cardinality(CallsOf("upload_diff")) <= 1
  /\ Called("upload_diff") =>
       \A cs \in RequestedIds :
         Returned("get_changeset", cs) /\ Returned("get_changeset_elements_history", cs)
  /\ RetrievalFailed =>
       Failed /\ ~Called("upload_diff") /\ ~Called("post_discussion_comment")

\* C2, amended: upload_diff is called at most once, only after get_changeset
\* returned for every requested changeset and get_changeset_elements_history
\* returned a diff for every requested changeset of non-zero declared size (the
\* history of an empty changeset is not queried); a failed retrieval ends the run
\* with a failure and without upload or comment.
C2_UploadAfterRetrieval ==
  /\ Cardinality(CallsOf("upload_diff")) <= 1
  /\ Called("upload_diff") =>
       \A cs \in RequestedIds :
         /\ Returned("get_changeset", cs)
         /\ DeclaredEmpty(cs) \/ Returned("get_changeset_elements_history", cs)
  /\ RetrievalFailed =>
       Failed /\ ~Called("upload_diff") /\ ~Called("post_discussion_comment")

C2_Witness ==
  /\ Called("upload_diff")
  /\ Cardinality(RequestedIds) = 2
  /\ \E cs \in RequestedIds :
       /\ DeclaredEmpty(cs)
       /\ \A i \in CallsOf("get_changeset_elements_history") : calls[i].arg # cs

\* C3: upload_diff is only called while the inverted elements, parents included,
\* number at most the cap get_changeset_max_size returned; a larger revert ends
\* the run with -1 and without upload.
C3_UploadWithinCap ==
  /\ Called("upload_diff") =>
       Returned("get_changeset_max_size", 0) /\ DictSize(invert) <= changeset_max_size
  /\ Returned("get_changeset_max_size", 0) /\ DictSize(invert) > changeset_max_size =>
       Exited(-1) /\ ~Called("upload_diff")

C3_Witness ==
  /\ Exited(-1)
  /\ Returned("get_changeset_max_size", 0)
  /\ DictSize(invert) > changeset_max_size
  /\ Len(invert["way"]) > 0
  /\ DictSize(invert) - Len(invert["way"]) <= changeset_max_size

\* the declared size of the changeset whose history call i fetched
DeclaredAt(i) ==
  LET j == CHOOSE k \in CallsOf("get_changeset") :
             k < i /\ \A m \in CallsOf("get_changeset") : m < i => m <= k
  IN calls[j].val

Oversized(i) ==
  /\ calls[i].op = "get_changeset_elements_history"
  /\ calls[i].res = "ok"
  /\ calls[i].val > DeclaredAt(i)

\* C4: a fetched diff with more entries than the changeset's declared size ends
\* the run at once with -2: that fetch is the last call made, nothing is merged,
\* inverted or written; so every diff of a run that goes on fits its changeset.
C4_DiffWithinDeclaredSize ==
  \A i \in 1..Len(calls) :
    Oversized(i) =>
      /\ i = Len(calls)
      /\ Exited(-2)
      /\ merged_diffs = EmptyDict /\ invert = EmptyDict /\ ~Wrote

C4_Witness ==
  /\ Exited(-2)
  /\ Len(calls) > 0
  /\ Oversized(Len(calls))
  /\ Len(diffs) = 2

Merged == ret_merged.done /\ ~ret_merged.raised

\* C5: in every list merge_and_sort_diffs returns, timestamps never increase from
\* one entry to the next.
C5_NewestFirst ==
  Merged =>
    \A t \in DOMAIN ret_merged.value :
      \A i \in 1..(Len(ret_merged.value[t]) - 1) :
        ret_merged.value[t][i].timestamp >= ret_merged.value[t][i + 1].timestamp

C5_Witness ==
  /\ Merged
  /\ Len(passed_diffs) = 2
  /\ Len(ret_merged.value["node"]) >= 3
  /\ ret_merged.value["node"][1].timestamp > ret_merged.value["node"][3].timestamp
  /\ ret_merged.value["node"] # passed_diffs[1]["node"] \o passed_diffs[2]["node"]

\* C6: in every list merge_and_sort_diffs returns, of two adjacent entries with
\* the same timestamp the first has the greater changeset id, or the same
\* changeset id and the greater version.
C6_TiesByChangesetThenVersion ==
  Merged =>
    \A t \in DOMAIN ret_merged.value :
      \A i \in 1..(Len(ret_merged.value[t]) - 1) :
        LET a == ret_merged.value[t][i]
            b == ret_merged.value[t][i + 1]
        IN a.timestamp = b.timestamp =>
             \/ a.changeset_id > b.changeset_id
             \/ a.changeset_id = b.changeset_id /\ a.version > b.version

Occurrences(l, e) == Cardinality({i \in 1..Len(l) : l[i] = e})

\* C7: merge_and_sort_diffs keeps every entry: for each type found in an input
\* diff the merged list is a permutation of the input lists' concatenation, and
\* of two entries of one element the newer one comes first.
C7_NothingLost ==
  Merged =>
    \A t \in UNION {DOMAIN passed_diffs[k] : k \in 1..Len(passed_diffs)} :
      /\ t \in DOMAIN ret_merged.value
      /\ LET all == ConcatFrom(passed_diffs, 1, t)
             out == ret_merged.value[t]
         IN /\ Len(out) = Len(all)
            /\ \A e \in Range(all) \cup Range(out) : Occurrences(out, e) = Occurrences(all, e)
            /\ \A i, j \in 1..Len(out) :
                 out[i].id = out[j].id /\ out[i].timestamp > out[j].timestamp => i < j

C7_Witness ==
  /\ Merged
  /\ Len(passed_diffs) = 2
  /\ Len(passed_diffs[1]["node"]) = 1
  /\ Len(passed_diffs[2]["node"]) = 1
  /\ passed_diffs[1]["node"][1].id = passed_diffs[2]["node"][1].id
  /\ passed_diffs[1]["node"][1].timestamp < passed_diffs[2]["node"][1].timestamp
  /\ ret_merged.value["node"] = <<passed_diffs[2]["node"][1], passed_diffs[1]["node"][1]>>

LoggedIn == Returned("get_authorized_user", 0)

\* C8: (a) an account whose changeset limit is 0 or below the number of requested
\* changesets gets -1 right after login, before any get_changeset, history query
\* or upload; (b) when get_user shows the author of a changeset to be a moderator
\* the run ends with -1 at that call: no history of that changeset, no later
\* changeset, no upload, no second attempt.
C8_PolicyBlocks ==
  /\ (/\ LoggedIn
      /\ pc # "limits"
      /\ ChangesetsLimit(user) = 0 \/ ChangesetsLimit(user) < Len(changeset_ids))
       => Exited(-1) /\ Len(calls) = 2 /\ ~Wrote
  /\ \A i \in CallsOf("get_user") :
       calls[i].res = "moderator" =>
         /\ i = Len(calls)
         /\ Exited(-1)
         /\ ~user.moderator /\ user.edits < CHANGESETS_LIMIT_MODERATOR_REVERT
         /\ ~Returned("get_changeset_elements_history", calls[i].arg)
         /\ ~Wrote

C8_Witness ==
  /\ Exited(-1)
  /\ LoggedIn
  /\ Len(calls) = 2
  /\ ChangesetsLimit(user) = 1
  /\ Len(changeset_ids) = 2

\* a changeset id as written: a non-empty run of decimal digits
DecimalId(s) == s # <<>> /\ \A i \in 1..Len(s) : s[i] \in Digits

\* no id is left of those given, or one of them, once stripped, is no number
BadIds == changeset_ids = <<>> \/ \E i \in 1..Len(changeset_ids) : ~DecimalId(changeset_ids[i])

\* C9: a run given no changeset id, or an id that is not numeric, ends with a
\* failure result before the client is created or any collaborator is called.
C9_BadIdsRejectedFirst ==
  BadIds /\ pc # "start" => Failed /\ calls = <<>>

ShortDiscussion ==
  ~discussion.isNone /\ Len(Strip(discussion.text)) < MinDiscussionLength

NetworkOps == {"get_authorized_user", "get_changeset", "get_user",
               "get_changeset_elements_history", "get_changeset_max_size",
               "upload_diff", "post_discussion_comment"}

\* C10: a run whose discussion text has fewer than 4 characters once stripped
\* makes no network call.
C10_ShortDiscussionRejectedFirst ==
  ShortDiscussion => \A i \in 1..Len(calls) : calls[i].op \notin NetworkOps

Count(l, x) == Cardinality({i \in 1..Len(l) : l[i] = x})

\* C11: a run that got through inversion with warnings and ends without a fatal
\* error (0 or -1) has reported the warnings exactly once, as the last output
\* before the closing success line.
C11_WarningsReportedOnce ==
  /\ Returned("invert_diff", 0)
  /\ warnings # <<>>
  /\ Exited(0) \/ Exited(-1)
  => /\ Count(printed, "warnings") = 1
     /\ \A i \in 1..Len(printed) : printed[i] = "warnings" => i >= Len(printed) - 1

\* every requested changeset was fetched, no call failed, and no history query
\* returned an entry
NoEntriesRun ==
  /\ Done
  /\ changeset_ids # <<>>
  /\ Cardinality(CallsOf("get_changeset")) = Len(changeset_ids)
  /\ \A i \in 1..Len(calls) : calls[i].op # "merge_and_sort_diffs" => calls[i].res = "ok"
  /\ \A i \in CallsOf("get_changeset_elements_history") : calls[i].val = 0

\* C12: a run whose retrieval yields no diff entries (every changeset empty, or
\* nothing matched) ends with 0, "nothing to revert", without upload and without
\* an exception.
C12_NoEntriesIsNothingToRevert ==
  NoEntriesRun => Exited(0) /\ ~Called("upload_diff") /\ printed = <<"nothing">>

\* C13: when parent reconciliation leaves zero inverted elements the run ends
\* with the result 0 and has no outward effect: no size cap is asked for, nothing
\* is uploaded, no comment is posted and no change document is written or
\* printed, in offline mode as well.
C13_NothingToRevertHasNoEffect ==
  Returned("update_parents", 0) /\ DictSize(invert) = 0 =>
    /\ Exited(0)
    /\ ~Called("get_changeset_max_size")
    /\ ~Called("upload_diff")
    /\ ~Called("post_discussion_comment")
    /\ uploaded = <<>>
    /\ ~Called("build_osm_change")
    /\ ~Called("write_osc")
    /\ Count(printed, "osc") = 0
    /\ Count(printed, "success") = 0

C13_Witness ==
  /\ offline
  /\ Returned("update_parents", 0)
  /\ DictSize(invert) = 0
  /\ Exited(0)
  /\ printed = <<"nothing">>

\* the pipeline stage an operation belongs to
StageOf ==
  [op \in {"OsmApi", "get_authorized_user", "get_changeset", "get_user",
           "get_changeset_elements_history", "merge_and_sort_diffs", "invert_diff",
           "update_parents", "get_changeset_max_size", "upload_diff",
           "build_osm_change", "unparse", "write_osc", "post_discussion_comment"} |->
     CASE op \in {"OsmApi", "get_authorized_user"} -> 0
       [] op \in {"get_changeset", "get_user", "get_changeset_elements_history"} -> 1
       [] op = "merge_and_sort_diffs" -> 2
       [] op = "invert_diff" -> 3
       [] op = "update_parents" -> 4
       [] op = "get_changeset_max_size" -> 5
       [] op \in {"upload_diff", "build_osm_change", "unparse", "write_osc"} -> 6
       [] op = "post_discussion_comment" -> 7]

Stage(op) == StageOf[op]

\* the build of the change document was reached
Built == Called("build_osm_change")
ReachedOutput == Built \/ Called("upload_diff")

\* the changesets in the order get_changeset was called for them
FetchedIds ==
  LET fetches == SelectSeq(calls, LAMBDA c : c.op = "get_changeset")
  IN [i \in 1..Len(fetches) |-> fetches[i].arg]

RequestedSeq == [i \in 1..Len(changeset_ids) |-> IntOf(changeset_ids[i])]

\* no call is followed by a call of an earlier stage
StagesInOrder ==
  \A i \in 1..(Len(calls) - 1) : Stage(calls[i].op) <= Stage(calls[i + 1].op)

\* every call about a changeset comes right after the fetch of that changeset:
\* get_user after its get_changeset, the history after either of the two
OneChangesetAtATime ==
  \A i \in 1..Len(calls) :
    /\ calls[i].op = "get_user" =>
         /\ i > 1
         /\ calls[i - 1].op = "get_changeset"
         /\ calls[i - 1].arg = calls[i].arg /\ calls[i - 1].res = "ok"
    /\ calls[i].op = "get_changeset_elements_history" =>
         /\ i > 1
         /\ calls[i - 1].op \in {"get_changeset", "get_user"}
         /\ calls[i - 1].arg = calls[i].arg /\ calls[i - 1].res = "ok"

Once(op) == Cardinality(CallsOf(op)) = 1

\* merge has started only with every requested changeset fetched, in order
MergeAfterRetrieval ==
  Called("merge_and_sort_diffs") =>
    /\ \A i \in 1..Len(changeset_ids) : IntParses(changeset_ids[i])
    /\ FetchedIds = RequestedSeq
    /\ \A cs \in RequestedIds :
         /\ Returned("get_changeset", cs)
         /\ DeclaredEmpty(cs) \/ Returned("get_changeset_elements_history", cs)

\* the inverted set is what invert_diff and update_parents made of the merged diff
InvertAsReconciled ==
  LET k == calls[CHOOSE i \in CallsOf("invert_diff") : TRUE].val
      parents == calls[CHOOSE i \in CallsOf("update_parents") : TRUE].val
  IN /\ invert = WithParents(Inverted(merged_diffs, k), parents)
     /\ invert_size = DictSize(invert)
     /\ \A i \in CallsOf("upload_diff") : calls[i].val = invert_size

StagesOnceUpToReconciliation ==
  /\ Once("merge_and_sort_diffs") /\ Once("invert_diff") /\ Once("update_parents")
  /\ InvertAsReconciled

\* C14, as stated: a run that reaches the build of the change document or the
\* upload has gone once through each stage, in the order retrieval (one changeset
\* at a time), merge, inversion, parent reconciliation, size count and cap check,
\* build or upload, and the inverted set is untouched after the reconciliation.
C14_EveryStageOnce ==
  ReachedOutput =>
    /\ StagesInOrder
    /\ OneChangesetAtATime
    /\ MergeAfterRetrieval
    /\ StagesOnceUpToReconciliation
    /\ Once("get_changeset_max_size")
    /\ Built \/ Once("upload_diff")

\* C14, amended: as above, but the cap check belongs to the upload only: a run
\* that uploads has asked for the cap once, between reconciliation and upload; a
\* run that builds the change document offline has never asked for it.
C14_StagesOnceCapOnUpload ==
  /\ StagesInOrder
  /\ OneChangesetAtATime
  /\ MergeAfterRetrieval
  /\ ReachedOutput =>
       /\ StagesOnceUpToReconciliation
       /\ IF Built
          THEN /\ ~Called("get_changeset_max_size") /\ ~Called("upload_diff")
               /\ Once("build_osm_change")
          ELSE Once("get_changeset_max_size") /\ Once("upload_diff")

C14_Witness ==
  /\ Exited(0)
  /\ Returned("upload_diff", 0)
  /\ Len(changeset_ids) = 2
  /\ Cardinality(CallsOf("get_changeset_elements_history")) = 2
  /\ DictSize(invert) > 0

\* what a filter token says when read as: a run of '-' (exclude) or of '+', blanks,
\* a type prefix, separators, blanks, and an id of decimal digits up to its end
Readings(token) ==
  LET t == Lower(Strip(token))
      n == Len(t)
      Run(i, j, S) == \A x \in i..j : t[x] \in S
      Fits(k, e) ==
        \E a \in 0..e :
          /\ Run(1, a, {"-"}) \/ Run(1, a, {"+"})
          /\ \E b \in a..e :
               /\ Run(a + 1, b, Whitespace)
               /\ LET c == b + Len(Prefixes[k].prefix)
                  IN /\ c <= e
                     /\ SubSeq(t, b + 1, c) = Prefixes[k].prefix
                     /\ \E d \in c..e : Run(c + 1, d, Separators) /\ Run(d + 1, e, Whitespace)
  IN {[section |-> IF n > 0 /\ t[1] = "-" THEN "exclude" ELSE "include",
       type |-> Prefixes[ke[1]].type,
       id |-> SubSeq(t, ke[2] + 1, n)] :
        ke \in {x \in (1..Len(Prefixes)) \X (0..(n - 1)) :
                  Run(x[2] + 1, n, Digits) /\ Fits(x[1], x[2])}}

ParsedElementIds == ret_element_ids.done /\ ~ret_element_ids.raised

\* C15: build_element_ids_dict raises as soon as one token has no type prefix or
\* no numeric id, and otherwise returns the dictionary in which every token has
\* put one id, of digits only, in one set: the set of its type, under 'exclude'
\* if the trimmed token begins with '-' and under 'include' if not.
C15_EachTokenOneDigitId ==
  ret_element_ids.done =>
    IF \E i \in 1..Len(arg_element_ids) : Readings(arg_element_ids[i]) = {}
    THEN ret_element_ids.raised
    ELSE /\ ~ret_element_ids.raised
         /\ \A section \in {"include", "exclude"} : \A t \in Types :
              /\ \A id \in ret_element_ids.value[section][t] :
                   \A i \in 1..Len(id) : id[i] \in Digits
              /\ ret_element_ids.value[section][t] =
                   {r.id : r \in {x \in UNION {Readings(arg_element_ids[i]) :
                                                i \in 1..Len(arg_element_ids)} :
                                    x.section = section /\ x.type = t}}

\* what raises in main: a collaborator or merge_and_sort_diffs (logged as raised)
CallRaised == \E i \in 1..Len(calls) : calls[i].res = "raise"
\* the assertions of lines 139-140
IdsRejected == pc # "start" /\ ~IdsValid(changeset_ids)
\* int(changeset_id) of line 184
IntRaised ==
  /\ idx \in 1..Len(changeset_ids)
  /\ ~IntParses(changeset_ids[idx])
  /\ pc # "loop"
\* the assertion of line 216
AssertRaised == \E i \in 1..Len(calls) : Oversized(i)
\* discussion.strip() of line 289 with no discussion given
StripRaised == uploaded # <<>> /\ discussion.isNone

Raised == CallRaised \/ IdsRejected \/ IntRaised \/ AssertRaised \/ StripRaised

\* C16: a run in which something raised, at whatever stage, has ended with -2 at
\* that very step (a raising call is the last call made, no success is reported),
\* and -2 is the result of no run in which nothing raised.
C16_ExceptionsEndWithMinusTwo ==
  /\ Raised => Exited(-2) /\ Count(printed, "success") = 0
  /\ \A i \in 1..Len(calls) : calls[i].res = "raise" \/ Oversized(i) => i = Len(calls)
  /\ IdsRejected => calls = <<>>
  /\ IntRaised => calls # <<>> /\ Stage(calls[Len(calls)].op) <= 1
  /\ StripRaised =>
       calls[Len(calls)].op = "upload_diff" /\ ~Called("post_discussion_comment")
  /\ Exited(-2) => Raised
  /\ Done => exit_code \in {<<0>>, <<-1>>, <<-2>>}

C16_Witness ==
  /\ Exited(-2)
  /\ calls # <<>>
  /\ calls[Len(calls)].op = "update_parents"
  /\ calls[Len(calls)].res = "raise"
  /\ DictSize(invert) > 0

\* the change document went out: to the file, to the output, or both
OscWritten == Returned("write_osc", 0)
OscPrinted == Count(printed, "osc") > 0

OfflineNonZero ==
  offline /\ Done /\ Returned("update_parents", 0) /\ DictSize(invert) > 0

NeverOnline ==
  offline =>
    /\ ~Called("get_changeset_max_size")
    /\ ~Called("upload_diff")
    /\ ~Called("post_discussion_comment")
    /\ uploaded = <<>>

\* the offline branch at its end: the document built once, written to the file
\* if one is given, printed if asked for, then the warnings and the success
OscDone ==
  /\ Exited(0)
  /\ Returned("build_osm_change", 0) /\ Returned("unparse", 0)
  /\ OscWritten = osc_file
  /\ OscPrinted = print_osc
  /\ Count(printed, "success") = 1

\* the offline branch left by an exception of the build, the serialisation or
\* the file: nothing printed, no success
OscFailed ==
  /\ Exited(-2)
  /\ calls[Len(calls)].op \in {"build_osm_change", "unparse", "write_osc"}
  /\ calls[Len(calls)].res = "raise"
  /\ ~OscWritten /\ ~OscPrinted
  /\ Count(printed, "success") = 0

\* C17, as stated: an offline run asks for no cap, uploads nothing and posts no
\* comment; with a non-zero inverted set it builds the change document, made
\* with no changeset id, writes/prints it and ends with success. No run both
\* uploads and produces a document.
C17_OfflineWritesAndSucceeds ==
  /\ NeverOnline
  /\ OfflineNonZero => OscDone
  /\ Built => offline /\ Returned("update_parents", 0) /\ DictSize(invert) > 0
  /\ ~(Built /\ Called("upload_diff"))

\* C17, amended: as above, but the offline run ends with success only if neither
\* the build of the document, nor its serialisation, nor the file raises; if one
\* does, the run ends with -2 and no document has gone out.
C17_OfflineWritesAndNeverUploads ==
  /\ NeverOnline
  /\ OfflineNonZero => OscDone \/ OscFailed
  /\ Built => offline /\ Returned("update_parents", 0) /\ DictSize(invert) > 0
  /\ OscWritten => osc_file
  /\ OscPrinted => print_osc
  /\ ~(Built /\ Called("upload_diff"))

C17_Witness ==
  /\ osc_file /\ print_osc
  /\ OscDone
  /\ DictSize(invert) > 0
  /\ Len(changeset_ids) = 2

\* the changesets commented on, in the order of the comments
PostedTo ==
  LET posts == SelectSeq(calls, LAMBDA c : c.op = "post_discussion_comment")
  IN [i \in 1..Len(posts) |-> posts[i].arg]

\* the changesets a discussion target stands for
Selected ==
  CASE discussion_target = "all" -> RequestedSeq
    [] discussion_target = "newest" -> <<RequestedSeq[Len(RequestedSeq)]>>
    [] discussion_target = "oldest" -> <<RequestedSeq[1]>>
    [] OTHER -> <<>>

LongDiscussion ==
  ~discussion.isNone /\ Len(Strip(discussion.text)) >= MinDiscussionLength

\* C18: comments are posted only after upload_diff returned a changeset id and
\* only for a discussion text of at least 4 characters once trimmed; they go to
\* the changesets the target selects, one each and in order ('all': every
\* requested changeset, 'newest': the last of the ordered ids, 'oldest': the
\* first, anything else: none), and a run that succeeds has posted all of them.
C18_CommentsOnlyToSelected ==
  /\ Called("post_discussion_comment") =>
       /\ uploaded # <<>>
       /\ LongDiscussion
       /\ \E u \in CallsOf("upload_diff") :
            /\ calls[u].res = "ok"
            /\ \A i \in CallsOf("post_discussion_comment") : u < i
       /\ Len(PostedTo) <= Len(Selected)
       /\ \A i \in 1..Len(PostedTo) : PostedTo[i] = Selected[i]
       /\ \A i \in CallsOf("post_discussion_comment") : calls[i].res = "ok" \/ i = Len(calls)
  /\ Exited(0) /\ uploaded # <<>> =>
       IF LongDiscussion
       THEN PostedTo = Selected /\ \A i \in CallsOf("post_discussion_comment") : calls[i].res = "ok"
       ELSE ~Called("post_discussion_comment")

C18_Witness ==
  /\ Exited(0)
  /\ discussion_target = "newest"
  /\ Len(changeset_ids) = 2
  /\ PostedTo = <<IntOf(changeset_ids[2])>>

\* least and greatest of a non-empty set of numbers
MinOf(S) == CHOOSE x \in S : \A y \in S : x <= y
MaxOf(S) == CHOOSE x \in S : \A y \in S : x >= y

\* C19: the requested ids are kept once each in ascending numeric order: they
\* are fetched from the numerically smallest to the largest, and the targets
\* 'oldest' and 'newest' stand for the smallest and the largest of them.
C19_AscendingByValue ==
  pc # "start" /\ (\A i \in 1..Len(changeset_ids) : IntParses(changeset_ids[i])) =>
    /\ \A i \in 1..(Len(changeset_ids) - 1) :
         IntOf(changeset_ids[i]) < IntOf(changeset_ids[i + 1])
    /\ \A i \in 1..(Len(FetchedIds) - 1) : FetchedIds[i] < FetchedIds[i + 1]
    /\ Called("post_discussion_comment") =>
         /\ discussion_target = "oldest" => PostedTo = <<MinOf(RequestedIds)>>
         /\ discussion_target = "newest" => PostedTo = <<MaxOf(RequestedIds)>>

====
